---- MODULE Spec2Model ----
(***************************************************************************)
(* A model of mpdsub: the Subsonic HTTP API bridge in front of MPD.        *)
(*                                                                         *)
(* Strings are Go strings: sequences of bytes.  "a" is <<97>>, "/" is 47.  *)
(* The virtual index (indexFiles, filterFiles) and the gateway             *)
(* (ServeHTTP, parseContext, decodePassword and the handlers) are          *)
(* translated from the source, function by function.                       *)
(***************************************************************************)
EXTENDS Integers, Sequences, FiniteSets, TLC

VARIABLES
    files,      \* the database's listing: what db.List("file") returns
    fault,      \* which collaborator call fails: none, list, attrs, attrsLast, open, stat
    cfg,        \* the Server's Config
    hexPartial, \* the build's hex.DecodeString: TRUE keeps the bytes decoded before an error
    req,        \* the request being served (NoReq before the first)
    resp,       \* the response written for req
    calls,      \* the collaborator calls made while serving req, in order
    out,        \* the result of the last indexFiles(files) call (pure-function runs)
    start,      \* the start index of the last filterFiles call
    filtered,   \* the result of the last filterFiles(out, start) call
    tagOut,     \* the result of the last tagFiles call (pure-function runs)
    walk,       \* indexFiles run loop turn by loop turn: where it stands and its locals
    ticker,     \* the keepalive goroutine: none (never started), running, stopped
    pings,      \* the number of db.Ping calls the keepalive goroutine has made
    logged,     \* the number of failed pings the keepalive goroutine has logged
    closed,     \* the server's shutdown has completed
    issued,     \* the (id, path) pairs responses have handed to the client
    pc          \* where the run stands: listed, indexed, filtered, tagged, idle, served

vars ==
    <<files, fault, cfg, hexPartial, req, resp, calls, out, start, filtered, tagOut, walk,
      ticker, pings, logged, closed, issued, pc>>

----------------------------------------------------------------------------
(* Bounds *)

\* the longest database listing
MaxFiles == 3

\* the most pings a run follows the keepalive goroutine through
MaxPings == 3

----------------------------------------------------------------------------
(* Strings *)

\* os.PathSeparator, '/'
PathSeparator == 47

\* "."
Dot == <<46>>

\* strings.HasPrefix
HasPrefix(s, prefix) ==
    /\ Len(prefix) <= Len(s)
    /\ SubSeq(s, 1, Len(prefix)) = prefix

\* strings.TrimPrefix
TrimPrefix(s, prefix) ==
    IF HasPrefix(s, prefix) THEN SubSeq(s, Len(prefix) + 1, Len(s)) ELSE s

\* strings.Count(s, string(os.PathSeparator))
CountSep(s) == Cardinality({i \in 1..Len(s) : s[i] = PathSeparator})

\* strings.Contains(s, string(os.PathSeparator))
ContainsSep(s) == \E i \in 1..Len(s) : s[i] = PathSeparator

\* the index of the last separator of path, 0 when it has none
LastSep(path) ==
    IF ContainsSep(path)
    THEN CHOOSE i \in 1..Len(path) :
            /\ path[i] = PathSeparator
            /\ \A j \in (i+1)..Len(path) : path[j] # PathSeparator
    ELSE 0

RECURSIVE TrimTrailingSeps(_)
\* filepath.Clean on a path that is a run of clean segments followed by
\* separators: the trailing separators go, the root stays "/", "" is "."
TrimTrailingSeps(path) ==
    IF path = <<>> THEN Dot
    ELSE IF path[Len(path)] # PathSeparator THEN path
    ELSE IF Len(path) = 1 THEN path
    ELSE TrimTrailingSeps(SubSeq(path, 1, Len(path) - 1))

\* filepath.Dir: all but the last element of path, cleaned
Dir(path) == TrimTrailingSeps(SubSeq(path, 1, LastSep(path)))

\* filepath.Base: the last element of path
Base(path) ==
    IF path = <<>> THEN Dot
    ELSE LET p == TrimTrailingSeps(path)
         IN  IF p = <<PathSeparator>> THEN p
             ELSE SubSeq(p, LastSep(p) + 1, Len(p))

\* filepath.Join of two clean elements
Join(dir, name) ==
    IF dir = <<>> THEN name
    ELSE IF name = <<>> THEN dir
    ELSE dir \o <<PathSeparator>> \o name

----------------------------------------------------------------------------
(* The paths the database lists: relative paths of one to three segments   *)
(* over the names "a" and "ab" ("a" is a proper prefix of its sibling "ab")*)

Names == {<<97>>, <<97, 98>>}

Paths ==
    Names
    \cup {Join(x, y) : x \in Names, y \in Names}
    \cup {Join(Join(x, y), z) : x \in Names, y \in Names, z \in Names}

\* every listing of at most n paths
RECURSIVE Listings(_)
Listings(n) ==
    IF n = 0 THEN {<<>>}
    ELSE LET shorter == Listings(n - 1)
         IN  shorter \cup {Append(l, p) : l \in {s \in shorter : Len(s) = n - 1}, p \in Paths}

----------------------------------------------------------------------------
(* stack *)

\* stack.Push
Push(s, str) == Append(s, str)

\* Pop taking the bottom element: a queue instead of a stack
PopBottom(s) ==
    IF Len(s) = 0
    THEN [str |-> <<>>, s |-> s]
    ELSE [str |-> s[1], s |-> Tail(s)]

\* stack.Pop: the popped string ("" when the stack is empty) and the rest
Pop(s) ==
    IF Len(s) = 0
    THEN [str |-> <<>>, s |-> s]
    ELSE [str |-> s[Len(s)], s |-> SubSeq(s, 1, Len(s) - 1)]

----------------------------------------------------------------------------
(* indexFiles *)

RECURSIVE walkDirsUnseen(_, _, _)
\* walkDirs without the check of seen: every ancestor is pushed again
walkDirsUnseen(d, seen, dirs) ==
    IF d = Dot THEN [seen |-> seen, dirs |-> dirs]
    ELSE walkDirsUnseen(Dir(d), seen \cup {d}, Push(dirs, d))

RECURSIVE walkDirs(_, _, _)
\* for d := filepath.Dir(f); d != "."; d = filepath.Dir(d): directories not
\* yet seen are added to seen and pushed, nearest parent first
walkDirs(d, seen, dirs) ==
    IF d = Dot THEN [seen |-> seen, dirs |-> dirs]
    ELSE IF d \in seen THEN walkDirs(Dir(d), seen, dirs)
    ELSE walkDirs(Dir(d), seen \cup {d}, Push(dirs, d))

RECURSIVE drainDirs(_, _, _)
\* for d := dirs.Pop(); d != ""; d = dirs.Pop(): each popped directory gets
\* the next index
drainDirs(dirs, idx, acc) ==
    LET p == Pop(dirs)
    IN  IF p.str = <<>> THEN [idx |-> idx, out |-> acc]
        ELSE drainDirs(p.s, idx + 1,
                       Append(acc, [ID |-> idx, Name |-> p.str, Dir |-> TRUE]))

RECURSIVE indexLoop(_, _, _, _)
\* for _, f := range files
indexLoop(fs, seen, idx, acc) ==
    IF fs = <<>> THEN acc
    ELSE LET f == Head(fs)
             w == walkDirs(Dir(f), seen, <<>>)
             d == drainDirs(w.dirs, idx, acc)
         IN  indexLoop(Tail(fs), w.seen, d.idx + 1,
                       Append(d.out, [ID |-> d.idx, Name |-> f, Dir |-> FALSE]))

\* indexFiles with its counter starting at one
indexFilesFromOne(fs) == indexLoop(fs, {}, 1, <<>>)

\* indexFiles: seen is empty, idx is 0
indexFiles(fs) == indexLoop(fs, {}, 0, <<>>)

----------------------------------------------------------------------------
(* filterFiles *)

\* files[i] with Go's 0-based index
At(fs, i) == fs[i + 1]

\* files[lo:hi] with Go's 0-based bounds
Slice(fs, lo, hi) == SubSeq(fs, lo + 1, hi)

\* the run copied by the first loop: files[start:start+i] for the first i
\* whose name lacks the start entry's name as a prefix, files[start:] if none
prefixRun(fs, st) ==
    LET n    == Len(fs) - st
        stop == {i \in 0..(n - 1) : ~HasPrefix(At(fs, st + i).Name, At(fs, st).Name)}
    IN  IF stop = {} THEN Slice(fs, st, Len(fs))
        ELSE LET i == CHOOSE k \in stop : \A m \in stop : k <= m
             IN  Slice(fs, st, st + i)

\* the second loop dropping the entries with more separators than the start
depthFilterFlat(run) ==
    LET sepCount == CountSep(run[1].Name)
    IN  SelectSeq(run, LAMBDA f : ~(CountSep(f.Name) > sepCount))

\* the second loop: entries with more than sepCount+1 separators are dropped
depthFilter(run) ==
    LET sepCount == CountSep(run[1].Name)
    IN  SelectSeq(run, LAMBDA f : ~(CountSep(f.Name) > sepCount + 1))

\* filterFiles; a negative start passes the length check and files[start:]
\* panics (slice bounds out of range)
filterFiles(fs, st) ==
    IF st >= Len(fs) THEN [panic |-> FALSE, out |-> <<>>]
    ELSE IF st < 0 THEN [panic |-> TRUE, out |-> <<>>]
    ELSE [panic |-> FALSE, out |-> Tail(depthFilter(prefixRun(fs, st)))]

----------------------------------------------------------------------------
(* Numbers and hex *)

\* '0'..'9'
IsDigit(c) == c >= 48 /\ c <= 57

RECURSIVE digitsValue(_, _)
\* the value of a run of decimal digits, most significant first
digitsValue(s, acc) ==
    IF s = <<>> THEN acc ELSE digitsValue(Tail(s), acc * 10 + (Head(s) - 48))

\* an Atoi without errors: the value of a run of digits, 0 for anything else
AtoiLenient(s) ==
    IF s # <<>> /\ \A i \in 1..Len(s) : IsDigit(s[i])
    THEN [ok |-> TRUE, val |-> digitsValue(s, 0)]
    ELSE [ok |-> TRUE, val |-> 0]

\* strconv.Atoi: an optional sign and one or more decimal digits
Atoi(s) ==
    LET signed == s # <<>> /\ (s[1] = 43 \/ s[1] = 45)
        digits == IF signed THEN Tail(s) ELSE s
    IN  IF digits = <<>> \/ \E i \in 1..Len(digits) : ~IsDigit(digits[i])
        THEN [ok |-> FALSE, val |-> 0]
        ELSE [ok |-> TRUE,
              val |-> IF signed /\ s[1] = 45 THEN 0 - digitsValue(digits, 0)
                      ELSE digitsValue(digits, 0)]

RECURSIVE natString(_)
natString(n) ==
    IF n < 10 THEN <<48 + n>> ELSE natString(n \div 10) \o <<48 + (n % 10)>>

\* strconv.Itoa
Itoa(n) == IF n < 0 THEN <<45>> \o natString(0 - n) ELSE natString(n)

\* encoding/hex fromHexChar: the value of a hex digit, 16 for any other byte
fromHexChar(c) ==
    IF c >= 48 /\ c <= 57 THEN c - 48
    ELSE IF c >= 97 /\ c <= 102 THEN c - 97 + 10
    ELSE IF c >= 65 /\ c <= 70 THEN c - 65 + 10
    ELSE 16

RECURSIVE hexDecode(_, _)
\* encoding/hex Decode: pairs of hex digits to bytes; it stops at the first
\* byte that is no hex digit and at an odd tail, with the bytes decoded so far
hexDecode(src, acc) ==
    IF src = <<>> THEN [ok |-> TRUE, bytes |-> acc]
    ELSE IF Len(src) = 1 THEN [ok |-> FALSE, bytes |-> acc]
    ELSE IF fromHexChar(src[1]) > 15 \/ fromHexChar(src[2]) > 15
         THEN [ok |-> FALSE, bytes |-> acc]
    ELSE hexDecode(SubSeq(src, 3, Len(src)),
                   Append(acc, 16 * fromHexChar(src[1]) + fromHexChar(src[2])))

\* hex.DecodeString with its error dropped (b, _ := ...).  On malformed
\* input the library returns nil in older releases and the bytes decoded
\* before the error in newer ones; hexPartial says which one the build has.
DecodeString(s) ==
    LET d == hexDecode(s, <<>>)
    IN  IF d.ok \/ hexPartial THEN d.bytes ELSE <<>>

\* the lower-case hex digit of a value below 16
hexDigit(n) == IF n < 10 THEN 48 + n ELSE 97 + (n - 10)

RECURSIVE EncodeToString(_)
\* hex.EncodeToString
EncodeToString(b) ==
    IF b = <<>> THEN <<>>
    ELSE <<hexDigit(Head(b) \div 16), hexDigit(Head(b) % 16)>> \o EncodeToString(Tail(b))

----------------------------------------------------------------------------
(* tagFiles *)

\* mpd.Attrs of a listed file: the database's tags, which differ from file
\* to file
Attrs(uri) ==
    [ARTIST |-> <<65>> \o uri,
     ALBUM  |-> <<76>> \o uri,
     TITLE  |-> <<84>> \o Base(uri)]

\* db.ReadComments: the tags of a listed file, an error for any other uri,
\* when the database fails (attrs), and for the last listed file when the
\* database has no tags for it (attrsLast)
ReadComments(uri) ==
    IF /\ fault # "attrs"
       /\ ~(fault = "attrsLast" /\ uri = files[Len(files)])
       /\ \E i \in 1..Len(files) : files[i] = uri
    THEN [ok |-> TRUE, attrs |-> Attrs(uri)]
    ELSE [ok |-> FALSE, attrs |-> <<>>]

RECURSIVE tagLoop(_, _, _, _)
\* the first loop of tagFiles: directories get their base name as title,
\* files their tags, which are cached under the file's directory
tagLoop(fs, acc, cache, cs) ==
    IF fs = <<>> THEN [ok |-> TRUE, out |-> acc, cache |-> cache, calls |-> cs]
    ELSE LET f == Head(fs)
         IN  IF f.Dir
             THEN tagLoop(Tail(fs),
                          Append(acc, [ID |-> f.ID, Name |-> f.Name, Dir |-> f.Dir,
                                       Artist |-> <<>>, Album |-> <<>>,
                                       Title |-> Base(f.Name)]),
                          cache, cs)
             ELSE LET rc   == ReadComments(f.Name)
                      call == [op |-> "ReadComments", arg |-> f.Name, ok |-> rc.ok]
                      newf == [ID |-> f.ID, Name |-> f.Name, Dir |-> f.Dir,
                               Artist |-> rc.attrs.ARTIST, Album |-> rc.attrs.ALBUM,
                               Title |-> rc.attrs.TITLE]
                      d    == Dir(f.Name)
                  IN  IF ~rc.ok
                      THEN [ok |-> FALSE, out |-> <<>>, cache |-> cache,
                            calls |-> Append(cs, call)]
                      ELSE tagLoop(Tail(fs), Append(acc, newf),
                                   [x \in DOMAIN cache \cup {d} |->
                                       IF x = d THEN newf ELSE cache[x]],
                                   Append(cs, call))

\* the second loop of tagFiles without its skip of top-level entries
tagDirsAll(tagged, cache) ==
    [i \in 1..Len(tagged) |->
        LET f == tagged[i]
        IN  IF ~f.Dir THEN f
            ELSE IF f.Name \in DOMAIN cache
                 THEN [f EXCEPT !.Artist = cache[f.Name].Artist,
                                !.Album = cache[f.Name].Album,
                                !.Title = cache[f.Name].Album]
                 ELSE f]

\* the second loop of tagFiles: a directory below the top level whose path
\* is in the cache takes the cached artist and album, and the album as title
tagDirs(tagged, cache) ==
    [i \in 1..Len(tagged) |->
        LET f == tagged[i]
        IN  IF ~ContainsSep(f.Name) THEN f
            ELSE IF ~f.Dir THEN f
            ELSE IF f.Name \in DOMAIN cache
                 THEN [f EXCEPT !.Artist = cache[f.Name].Artist,
                                !.Album = cache[f.Name].Album,
                                !.Title = cache[f.Name].Album]
                 ELSE f]

\* tagFiles returning, with the error, the directories it has tagged
tagFilesPartial(fs) ==
    LET t == tagLoop(fs, <<>>, <<>>, <<>>)
    IN  IF ~t.ok
        THEN [ok |-> FALSE,
              out |-> tagLoop(SelectSeq(fs, LAMBDA f : f.Dir), <<>>, <<>>, <<>>).out,
              calls |-> t.calls]
        ELSE [ok |-> TRUE, out |-> tagDirs(t.out, t.cache), calls |-> t.calls]

\* tagFiles: nil and the error when a lookup fails
tagFiles(fs) ==
    LET t == tagLoop(fs, <<>>, <<>>, <<>>)
    IN  IF ~t.ok THEN [ok |-> FALSE, out |-> <<>>, calls |-> t.calls]
        ELSE [ok |-> TRUE, out |-> tagDirs(t.out, t.cache), calls |-> t.calls]

----------------------------------------------------------------------------
(* Responses *)

statusOK == "ok"
statusFailed == "failed"

\* the Error code of a container without Error
NoCode == -1

\* what the error functions set in the container
errUnauthorized == [Status |-> statusFailed, Code |-> 40]
errMissingParameter == [Status |-> statusFailed, Code |-> 10]
errGeneric == [Status |-> statusFailed, Code |-> 0]

\* the container writeXML starts from, with the handler's payload
okContainer == [Status |-> statusOK, Code |-> NoCode]

\* writeXML: the container is encoded into the body; no header is written
\* first, so the response has status 200
writeXML(c, stage, handler, body) ==
    [http |-> 200, envelope |-> TRUE, status |-> c.Status, code |-> c.Code,
     stage |-> stage, handler |-> handler, panic |-> FALSE, body |-> body]

\* http.Error and http.NotFound: a bare status, no envelope
httpStatus(code, stage, handler) ==
    [http |-> code, envelope |-> FALSE, status |-> "", code |-> NoCode,
     stage |-> stage, handler |-> handler, panic |-> FALSE, body |-> <<>>]

\* a handler that panics: net/http recovers, logs and drops the connection;
\* no response is written
panicked(handler) ==
    [http |-> 0, envelope |-> FALSE, status |-> "", code |-> NoCode,
     stage |-> "mux", handler |-> handler, panic |-> TRUE, body |-> <<>>]

\* http.ServeContent of the opened file (a request without Range or
\* conditional headers): the content of name with status 200
serveContent(name, handler) ==
    [http |-> 200, envelope |-> FALSE, status |-> "", code |-> NoCode,
     stage |-> "mux", handler |-> handler, panic |-> FALSE, body |-> [content |-> name]]

----------------------------------------------------------------------------
(* Collaborator calls *)

\* s.db.List("file")
List == [ok |-> fault # "list", files |-> IF fault # "list" THEN files ELSE <<>>]
ListCall == [op |-> "List", arg |-> <<>>, ok |-> List.ok]

\* s.fs.Open(p)
Open(p) == [ok |-> fault # "open"]
OpenCall(p) == [op |-> "Open", arg |-> p, ok |-> Open(p).ok]

\* f.Stat()
Stat(p) == [ok |-> fault # "stat"]
StatCall(p) == [op |-> "Stat", arg |-> p, ok |-> Stat(p).ok]

----------------------------------------------------------------------------
(* Handlers: each yields the response and the collaborator calls it made *)

\* getLicense
getLicense(r) ==
    [resp |-> writeXML(okContainer, "mux", "getLicense", [License |-> [Valid |-> TRUE]]),
     calls |-> <<>>]

RECURSIVE indexesLoopShifted(_, _, _)
\* the loop of getIndexes handing out each entry's id plus one
indexesLoopShifted(fs, seenChars, indexes) ==
    IF fs = <<>> THEN indexes
    ELSE LET f == Head(fs)
             c == IF IsDigit(f.Name[1]) THEN 35 ELSE f.Name[1]
             a == [Name |-> f.Name, ID |-> Itoa(f.ID + 1)]
             opened == IF c \in seenChars THEN indexes
                       ELSE Append(indexes, [Name |-> <<c>>, Artists |-> <<>>])
             idx == Len(opened)
         IN  IF ContainsSep(f.Name) THEN indexesLoopShifted(Tail(fs), seenChars, indexes)
             ELSE indexesLoopShifted(Tail(fs), seenChars \cup {c},
                     [opened EXCEPT ![idx].Artists = Append(@, a)])

RECURSIVE indexesLoop(_, _, _)
\* the loop of getIndexes over the index: entries with a separator are
\* skipped; a first rune not seen before opens a new index; the entry goes
\* to the index opened last
indexesLoop(fs, seenChars, indexes) ==
    IF fs = <<>> THEN indexes
    ELSE LET f == Head(fs)
             c == IF IsDigit(f.Name[1]) THEN 35 ELSE f.Name[1]
             a == [Name |-> f.Name, ID |-> Itoa(f.ID)]
             opened == IF c \in seenChars THEN indexes
                       ELSE Append(indexes, [Name |-> <<c>>, Artists |-> <<>>])
             idx == Len(opened)
         IN  IF ContainsSep(f.Name) THEN indexesLoop(Tail(fs), seenChars, indexes)
             ELSE indexesLoop(Tail(fs), seenChars \cup {c},
                     [opened EXCEPT ![idx].Artists = Append(@, a)])

\* getIndexes
getIndexes(r) ==
    IF ~List.ok
    THEN [resp |-> writeXML(errGeneric, "mux", "getIndexes", <<>>), calls |-> <<ListCall>>]
    ELSE [resp |-> writeXML(okContainer, "mux", "getIndexes",
                            [Indexes |-> indexesLoop(indexFiles(List.files), {}, <<>>)]),
          calls |-> <<ListCall>>]

\* the index of the last '.' in the last element of path, 0 when it has none
LastDot(path) ==
    LET dots == {i \in (LastSep(path) + 1)..Len(path) : path[i] = 46}
    IN  IF dots = {} THEN 0 ELSE CHOOSE i \in dots : \A j \in dots : j <= i

\* strings.TrimPrefix(filepath.Ext(name), ".")
Suffix(name) ==
    IF LastDot(name) = 0 THEN <<>> ELSE SubSeq(name, LastDot(name) + 1, Len(name))

\* the children of a musicDirectoryContainer
childrenOf(tagged) ==
    [i \in 1..Len(tagged) |->
        [ID |-> Itoa(tagged[i].ID), Album |-> tagged[i].Album,
         Artist |-> tagged[i].Artist, IsDir |-> tagged[i].Dir,
         Suffix |-> Suffix(tagged[i].Name), Title |-> tagged[i].Title]]

\* getMusicDirectory naming the directory after the starting entry
musicDirectoryStart(r, id) ==
    LET fl == filterFiles(indexFiles(List.files), id)
        tg == tagFiles(fl.out)
    IN  IF fl.panic
        THEN [resp |-> panicked("getMusicDirectory"), calls |-> <<ListCall>>]
        ELSE IF ~tg.ok
        THEN [resp |-> writeXML(errGeneric, "mux", "getMusicDirectory", <<>>),
              calls |-> <<ListCall>> \o tg.calls]
        ELSE IF Len(tg.out) = 0
        THEN [resp |-> httpStatus(404, "mux", "getMusicDirectory"),
              calls |-> <<ListCall>> \o tg.calls]
        ELSE [resp |-> writeXML(okContainer, "mux", "getMusicDirectory",
                         [MusicDirectory |->
                            [ID |-> Itoa(id), Name |-> At(indexFiles(List.files), id).Name,
                             Children |-> childrenOf(tg.out)]]),
              calls |-> <<ListCall>> \o tg.calls]

\* getMusicDirectory, from the listing on
musicDirectory(r, id) ==
    LET fl == filterFiles(indexFiles(List.files), id)
        tg == tagFiles(fl.out)
    IN  IF fl.panic
        THEN [resp |-> panicked("getMusicDirectory"), calls |-> <<ListCall>>]
        ELSE IF ~tg.ok
        THEN [resp |-> writeXML(errGeneric, "mux", "getMusicDirectory", <<>>),
              calls |-> <<ListCall>> \o tg.calls]
        ELSE IF Len(tg.out) = 0
        THEN [resp |-> httpStatus(404, "mux", "getMusicDirectory"),
              calls |-> <<ListCall>> \o tg.calls]
        ELSE [resp |-> writeXML(okContainer, "mux", "getMusicDirectory",
                         [MusicDirectory |->
                            [ID |-> Itoa(id), Name |-> tg.out[1].Name,
                             Children |-> childrenOf(tg.out)]]),
              calls |-> <<ListCall>> \o tg.calls]

\* getMusicDirectory
getMusicDirectory(r) ==
    IF r.id = <<>>
    THEN [resp |-> writeXML(errMissingParameter, "mux", "getMusicDirectory", <<>>),
          calls |-> <<>>]
    ELSE IF ~Atoi(r.id).ok
    THEN [resp |-> writeXML(errGeneric, "mux", "getMusicDirectory", <<>>), calls |-> <<>>]
    ELSE IF ~List.ok
    THEN [resp |-> writeXML(errGeneric, "mux", "getMusicDirectory", <<>>),
          calls |-> <<ListCall>>]
    ELSE musicDirectory(r, Atoi(r.id).val)

\* getMusicFolders asking the database for its listing first
getMusicFoldersListed(r) ==
    IF ~List.ok
    THEN [resp |-> writeXML(errGeneric, "mux", "getMusicFolders", <<>>),
          calls |-> <<ListCall>>]
    ELSE [resp |-> writeXML(okContainer, "mux", "getMusicFolders",
                    [MusicFolders |-> <<[ID |-> 0, Name |-> Base(cfg.MusicDirectory)]>>]),
          calls |-> <<ListCall>>]

\* getMusicFolders
getMusicFolders(r) ==
    [resp |-> writeXML(okContainer, "mux", "getMusicFolders",
                [MusicFolders |-> <<[ID |-> 0, Name |-> Base(cfg.MusicDirectory)]>>]),
     calls |-> <<>>]

\* ping
ping(r) == [resp |-> writeXML(okContainer, "mux", "ping", <<>>), calls |-> <<>>]

\* streamFile answering a failed open or stat with NotFound
streamFileNotFound(p) ==
    IF ~Open(p).ok
    THEN [resp |-> httpStatus(404, "mux", "stream"),
          calls |-> <<ListCall, OpenCall(p)>>]
    ELSE IF ~Stat(p).ok
    THEN [resp |-> httpStatus(404, "mux", "stream"),
          calls |-> <<ListCall, OpenCall(p), StatCall(p)>>]
    ELSE [resp |-> serveContent(p, "stream"),
          calls |-> <<ListCall, OpenCall(p), StatCall(p)>>]

\* stream, from the opening of the file on
streamFile(p) ==
    IF ~Open(p).ok
    THEN [resp |-> writeXML(errGeneric, "mux", "stream", <<>>),
          calls |-> <<ListCall, OpenCall(p)>>]
    ELSE IF ~Stat(p).ok
    THEN [resp |-> writeXML(errGeneric, "mux", "stream", <<>>),
          calls |-> <<ListCall, OpenCall(p), StatCall(p)>>]
    ELSE [resp |-> serveContent(p, "stream"),
          calls |-> <<ListCall, OpenCall(p), StatCall(p)>>]

\* stream opening the entry's path as it stands in the index, outside the
\* music directory
streamIndexedBare(indexed, id) ==
    IF id >= Len(indexed)
    THEN [resp |-> httpStatus(404, "mux", "stream"), calls |-> <<ListCall>>]
    ELSE IF id < 0
    THEN [resp |-> panicked("stream"), calls |-> <<ListCall>>]
    ELSE streamFile(At(indexed, id).Name)

\* stream, from the index on: the bounds check and files[id]; a negative id
\* passes the check and files[id] panics (index out of range)
streamIndexed(indexed, id) ==
    IF id >= Len(indexed)
    THEN [resp |-> httpStatus(404, "mux", "stream"), calls |-> <<ListCall>>]
    ELSE IF id < 0
    THEN [resp |-> panicked("stream"), calls |-> <<ListCall>>]
    ELSE streamFile(Join(cfg.MusicDirectory, At(indexed, id).Name))

\* stream
stream(r) ==
    IF r.id = <<>>
    THEN [resp |-> writeXML(errMissingParameter, "mux", "stream", <<>>), calls |-> <<>>]
    ELSE IF ~Atoi(r.id).ok
    THEN [resp |-> writeXML(errGeneric, "mux", "stream", <<>>), calls |-> <<>>]
    ELSE IF ~List.ok
    THEN [resp |-> writeXML(errGeneric, "mux", "stream", <<>>), calls |-> <<ListCall>>]
    ELSE streamIndexed(indexFiles(List.files), Atoi(r.id).val)

----------------------------------------------------------------------------
(* The gateway *)

\* the routes newServer registers
Routes == {"/rest/getLicense.view", "/rest/getIndexes.view",
           "/rest/getMusicDirectory.view", "/rest/getMusicFolders.view",
           "/rest/ping.view", "/rest/stream.view"}

\* s.mux.ServeHTTP: the handler registered for the path, the mux's own
\* NotFound handler for any other path
mux(r) ==
    CASE r.target = "/rest/getLicense.view" -> getLicense(r)
      [] r.target = "/rest/getIndexes.view" -> getIndexes(r)
      [] r.target = "/rest/getMusicDirectory.view" -> getMusicDirectory(r)
      [] r.target = "/rest/getMusicFolders.view" -> getMusicFolders(r)
      [] r.target = "/rest/ping.view" -> ping(r)
      [] r.target = "/rest/stream.view" -> stream(r)
      [] OTHER -> [resp |-> httpStatus(404, "mux", "NotFound"), calls |-> <<>>]

\* "enc:"
encPrefix == <<101, 110, 99, 58>>

\* decodePassword that never decodes
decodePasswordPlain(p) == p

\* decodePassword
decodePassword(p) ==
    IF ~HasPrefix(p, encPrefix) THEN p
    ELSE DecodeString(TrimPrefix(p, encPrefix))

\* parseContext without the check of the decoded password
parseContextNoPassword(r) ==
    IF r.u = <<>> THEN [ok |-> FALSE]
    ELSE IF r.c = <<>> THEN [ok |-> FALSE]
    ELSE IF r.v = <<>> THEN [ok |-> FALSE]
    ELSE [ok |-> TRUE, User |-> r.u, Password |-> decodePassword(r.p),
          Client |-> r.c, Version |-> r.v]

\* parseContext without the check of the client parameter
parseContextNoClient(r) ==
    IF r.u = <<>> THEN [ok |-> FALSE]
    ELSE IF decodePassword(r.p) = <<>> THEN [ok |-> FALSE]
    ELSE IF r.v = <<>> THEN [ok |-> FALSE]
    ELSE [ok |-> TRUE, User |-> r.u, Password |-> decodePassword(r.p),
          Client |-> r.c, Version |-> r.v]

\* parseContext: q.Get yields "" for an absent parameter
parseContext(r) ==
    IF r.u = <<>> THEN [ok |-> FALSE]
    ELSE IF decodePassword(r.p) = <<>> THEN [ok |-> FALSE]
    ELSE IF r.c = <<>> THEN [ok |-> FALSE]
    ELSE IF r.v = <<>> THEN [ok |-> FALSE]
    ELSE [ok |-> TRUE, User |-> r.u, Password |-> decodePassword(r.p),
          Client |-> r.c, Version |-> r.v]

\* a method check that lets every method through
methodAllowedAny(method) == TRUE

\* r.Method is http.MethodGet or http.MethodPost
methodAllowed(method) == method = "GET" \/ method = "POST"

\* a credential check that lets every user and password through
credentialsMatchAny(ctx) == TRUE

\* the context's user and password are the configured ones
credentialsMatch(ctx) ==
    ~(ctx.User # cfg.SubsonicUser \/ ctx.Password # cfg.SubsonicPassword)

\* Server.ServeHTTP
ServeHTTP(r) ==
    IF ~methodAllowed(r.method)
    THEN [resp |-> httpStatus(405, "method", "none"), calls |-> <<>>]
    ELSE LET ctx == parseContext(r)
         IN  IF ~ctx.ok
             THEN [resp |-> writeXML(errMissingParameter, "parse", "none", <<>>),
                   calls |-> <<>>]
             ELSE IF ~credentialsMatch(ctx)
             THEN [resp |-> writeXML(errUnauthorized, "auth", "none", <<>>),
                   calls |-> <<>>]
             ELSE mux(r)

----------------------------------------------------------------------------
(* The index functions run on every listing *)

\* no request, no response
NoReq == [method |-> "none"]
NoResp == [http |-> 0]
NoConfig ==
    [SubsonicUser |-> <<>>, SubsonicPassword |-> <<>>, MusicDirectory |-> <<>>,
     Keepalive |-> 0]

gatewayVars == <<fault, cfg, hexPartial, req, resp, calls>>
indexVars == <<out, start, filtered, tagOut, walk>>
keepaliveVars == <<ticker, pings, logged, closed>>

\* tagFiles has not been called
NotTagged == [ok |-> TRUE, out |-> <<>>, calls |-> <<>>]

\* indexFiles is not being followed through its loops
NoWalk ==
    [at |-> "idle", rest |-> <<>>, d |-> <<>>, dirs |-> <<>>, seen |-> {}, idx |-> 0,
     acc |-> <<>>]

InitFiles ==
    /\ files \in Listings(MaxFiles)
    /\ pc = "listed"
    /\ out = <<>>
    /\ start = 0
    /\ filtered = [panic |-> FALSE, out |-> <<>>]
    /\ tagOut = NotTagged
    /\ walk = NoWalk
    /\ fault = "none"
    /\ cfg = NoConfig
    /\ hexPartial = FALSE
    /\ req = NoReq
    /\ resp = NoResp
    /\ calls = <<>>
    /\ ticker = "none"
    /\ pings = 0
    /\ logged = 0
    /\ closed = FALSE
    /\ issued = {}

\* files := indexFiles(fs)
IndexFiles ==
    /\ pc = "listed"
    /\ out' = indexFiles(files)
    /\ pc' = "indexed"
    /\ UNCHANGED <<files, start, filtered, tagOut, walk, gatewayVars, keepaliveVars, issued>>

\* filterFiles(files, id) for an id from below the index to past its end
FilterFiles ==
    /\ pc = "indexed"
    /\ \E st \in (-1)..Len(out) :
        /\ start' = st
        /\ filtered' = filterFiles(out, st)
    /\ pc' = "filtered"
    /\ UNCHANGED <<files, out, tagOut, walk, gatewayVars, keepaliveVars, issued>>

NextFiles == IndexFiles \/ FilterFiles

SpecFiles == InitFiles /\ [][NextFiles]_vars

----------------------------------------------------------------------------
(* Requests to the gateway *)

\* the digest of the token scheme, md5 in hex: a stand-in that keeps
\* distinct inputs distinct
md5hex(s) == <<35>> \o s

\* the token of a password and a salt
Token(password, salt) == md5hex(password \o salt)

Users == {<<>>, <<117>>}
Passwords == {<<>>, <<97>>, encPrefix \o <<54, 49>>}
MusicDirectories == {<<47, 109>>}

Configs ==
    [SubsonicUser : Users, SubsonicPassword : Passwords, MusicDirectory : MusicDirectories,
     Keepalive : {0}]

\* the configuration of the tests' configAuth
TestConfig ==
    [SubsonicUser |-> <<117>>, SubsonicPassword |-> <<97>>, MusicDirectory |-> <<47, 109>>,
     Keepalive |-> 0]

Methods == {"GET", "POST", "PUT"}
Targets == Routes \cup {"/rest/other.view"}

\* values of p: none, "a", "b", "enc:61" (a), "enc:62" (b), the configured
\* password in hex, "enc:zz" and "enc:61zz" (malformed hex)
PValues ==
    {<<>>, <<97>>, <<98>>, encPrefix \o <<54, 49>>, encPrefix \o <<54, 50>>,
     encPrefix \o EncodeToString(cfg.SubsonicPassword),
     encPrefix \o <<122, 122>>, encPrefix \o <<54, 49, 122, 122>>}

Salts == {<<>>, <<115>>}

\* values of t: none, the token of the configured password, another token
TValues == {<<>>, <<120>>} \cup {Token(cfg.SubsonicPassword, s) : s \in Salts \ {<<>>}}

\* requests that differ in method, route and credentials
GatewayRequests ==
    [method : Methods, target : Targets,
     u : {<<>>, <<117>>, <<120>>}, p : PValues, t : TValues, s : Salts,
     c : {<<>>, <<99>>}, v : {<<>>, <<118>>}, id : {<<48>>}]

\* values of id: none, "x", "1x", and the integers from below the index to
\* past its end
IdValues ==
    {<<>>, <<120>>, <<49, 120>>} \cup {Itoa(i) : i \in (-1)..(Len(indexFiles(files)) + 1)}

\* requests with the configured credentials that differ in route and id
OpsRequests ==
    [method : {"GET"}, target : Targets,
     u : {cfg.SubsonicUser}, p : {cfg.SubsonicPassword}, t : {<<>>}, s : {<<>>},
     c : {<<99>>}, v : {<<118>>}, id : IdValues]

\* the listings the gateway serves: all of at most one path, and three
\* with a directory whose name is a prefix of a sibling's
ServedListings ==
    Listings(1)
    \cup {<<Join(<<97>>, <<97>>), <<97, 98>>>>,
          <<Join(Join(<<97>>, <<97>>), <<97>>), Join(<<97>>, <<97, 98>>)>>,
          <<Join(<<97>>, <<97>>), Join(<<97, 98>>, <<97>>), Join(<<97>>, <<97, 98>>)>>}

Faults == {"none", "list", "attrs", "attrsLast", "open", "stat"}

\* the server after newServer, before its first request: the keepalive
\* goroutine is started when the configured interval is positive
Idle ==
    /\ pc = "idle"
    /\ req = NoReq
    /\ resp = NoResp
    /\ calls = <<>>
    /\ out = <<>>
    /\ start = 0
    /\ filtered = [panic |-> FALSE, out |-> <<>>]
    /\ tagOut = NotTagged
    /\ walk = NoWalk
    /\ ticker = IF cfg.Keepalive > 0 THEN "running" ELSE "none"
    /\ pings = 0
    /\ logged = 0
    /\ closed = FALSE
    /\ issued = {}

\* the server serves one request: Server.ServeHTTP from its first line to
\* the response
Serve(requests) ==
    /\ pc = "idle"
    /\ \E r \in requests :
        /\ req' = r
        /\ resp' = ServeHTTP(r).resp
        /\ calls' = ServeHTTP(r).calls
    /\ pc' = "served"
    /\ UNCHANGED <<files, fault, cfg, hexPartial, indexVars, keepaliveVars, issued>>

\* the response is delivered and the request's state is dropped: the server
\* keeps nothing from one request to the next
Finish ==
    /\ pc = "served"
    /\ pc' = "idle"
    /\ req' = NoReq
    /\ resp' = NoResp
    /\ calls' = <<>>
    /\ UNCHANGED <<files, fault, cfg, hexPartial, indexVars, keepaliveVars, issued>>

\* any configuration, working collaborators, any credentials
Init ==
    /\ cfg \in Configs
    /\ hexPartial \in BOOLEAN
    /\ files = <<Join(<<97>>, <<97>>), <<97, 98>>>>
    /\ fault = "none"
    /\ Idle

Next == Serve(GatewayRequests) \/ Finish

Spec == Init /\ [][Next]_vars

\* the music directories of the tests: one and two segments deep
TestFolders == {<<47, 109>>, <<47, 109, 47, 102>>}

\* the tests' configuration, any served listing, any fault, any id
InitOps ==
    /\ cfg \in {[TestConfig EXCEPT !.MusicDirectory = d] : d \in TestFolders}
    /\ hexPartial \in BOOLEAN
    /\ files \in ServedListings
    /\ fault \in Faults
    /\ Idle

NextOps == Serve(OpsRequests) \/ Finish

SpecOps == InitOps /\ [][NextOps]_vars

----------------------------------------------------------------------------
(* getIndexes on listings of artists with different initials *)

\* paths whose first segments start with a letter ("a", "ab", "b") or a
\* digit ("1", "2"), alone and with a file beneath
IndexPaths ==
    {<<97>>, <<97, 98>>, <<98>>, <<49>>, <<50>>,
     Join(<<97>>, <<97>>), Join(<<98>>, <<97>>)}

\* every listing of at most n of these paths, in any order
RECURSIVE IndexListings(_)
IndexListings(n) ==
    IF n = 0 THEN {<<>>}
    ELSE LET shorter == IndexListings(n - 1)
         IN  shorter
             \cup {Append(l, p) : l \in {s \in shorter : Len(s) = n - 1}, p \in IndexPaths}

\* getIndexes requests with the configured credentials
IndexesRequests ==
    [method : {"GET", "POST"}, target : {"/rest/getIndexes.view"},
     u : {cfg.SubsonicUser}, p : {cfg.SubsonicPassword}, t : {<<>>}, s : {<<>>},
     c : {<<99>>}, v : {<<118>>}, id : {<<>>}]

\* the tests' configuration, a working database, any listing of artists
InitIndexes ==
    /\ cfg = TestConfig
    /\ hexPartial = FALSE
    /\ files \in IndexListings(MaxFiles)
    /\ fault = "none"
    /\ Idle

NextIndexes == Serve(IndexesRequests) \/ Finish

SpecIndexes == InitIndexes /\ [][NextIndexes]_vars

----------------------------------------------------------------------------
(* The keepalive goroutine *)

\* the keepalive intervals of a configuration: none, and the tests' 10ms
Intervals == {0, 10}

\* s.db.Ping()
dbPing == [ok |-> fault # "ping"]

\* <-ctx.Done() can be received: the context newServer hands to keepalive
\* is context.TODO(), which is never cancelled and whose Done channel is nil
ctxDone == FALSE

\* keepalive returning after a failed ping
keepaliveReturnOnError ==
    /\ ticker = "running"
    /\ pings < MaxPings
    /\ IF ctxDone
       THEN /\ ticker' = "stopped"
            /\ UNCHANGED <<pings, logged>>
       ELSE /\ pings' = pings + 1
            /\ logged' = IF dbPing.ok THEN logged ELSE logged + 1
            /\ ticker' = IF dbPing.ok THEN ticker ELSE "stopped"
    /\ UNCHANGED <<files, gatewayVars, indexVars, closed, issued, pc>>

\* one turn of keepalive's select: it returns when the context is done,
\* else on the tick it pings the database and logs a failure
keepalive ==
    /\ ticker = "running"
    /\ pings < MaxPings
    /\ IF ctxDone
       THEN /\ ticker' = "stopped"
            /\ UNCHANGED <<pings, logged>>
       ELSE /\ pings' = pings + 1
            /\ logged' = IF dbPing.ok THEN logged ELSE logged + 1
            /\ UNCHANGED ticker
    /\ UNCHANGED <<files, gatewayVars, indexVars, closed, issued, pc>>

\* Server.Close returns: no handle on the keepalive goroutine or its
\* context is kept in Server for it to use
Close ==
    /\ ~closed
    /\ closed' = TRUE
    /\ UNCHANGED <<files, gatewayVars, indexVars, ticker, pings, logged, issued, pc>>

\* the server of TestServerClose, with and without an interval, over a
\* database that answers pings or fails them
InitKeepalive ==
    /\ cfg \in {[TestConfig EXCEPT !.Keepalive = k] : k \in Intervals}
    /\ hexPartial = FALSE
    /\ files = <<Join(<<97>>, <<97>>), <<97, 98>>>>
    /\ fault \in {"none", "ping"}
    /\ Idle

NextKeepalive == Serve(OpsRequests) \/ Finish \/ keepalive \/ Close

SpecKeepalive == InitKeepalive /\ [][NextKeepalive]_vars

----------------------------------------------------------------------------
(* tagFiles run on the index of every listing *)

\* fs back to front
RECURSIVE Reverse(_)
Reverse(fs) == IF fs = <<>> THEN <<>> ELSE Append(Reverse(Tail(fs)), Head(fs))

\* inputs of tagFiles made of a listing's index: the whole index, the index
\* back to front, and its directories alone
TagInputs(fs) ==
    {indexFiles(fs), Reverse(indexFiles(fs)),
     SelectSeq(indexFiles(fs), LAMBDA f : f.Dir)}

\* a database that has every listed file's tags, or all but the last one's
InitTag ==
    /\ files \in Listings(MaxFiles)
    /\ fault \in {"none", "attrsLast"}
    /\ pc = "listed"
    /\ out = <<>>
    /\ start = 0
    /\ filtered = [panic |-> FALSE, out |-> <<>>]
    /\ tagOut = NotTagged
    /\ walk = NoWalk
    /\ cfg = NoConfig
    /\ hexPartial = FALSE
    /\ req = NoReq
    /\ resp = NoResp
    /\ calls = <<>>
    /\ ticker = "none"
    /\ pings = 0
    /\ logged = 0
    /\ closed = FALSE
    /\ issued = {}

\* tagFiles(db, in): out holds the input, tagOut the result
TagFiles ==
    /\ pc = "listed"
    /\ \E in \in TagInputs(files) :
        /\ out' = in
        /\ tagOut' = tagFiles(in)
    /\ pc' = "tagged"
    /\ UNCHANGED <<files, start, filtered, walk, gatewayVars, keepaliveVars, issued>>

NextTag == TagFiles

SpecTag == InitTag /\ [][NextTag]_vars

----------------------------------------------------------------------------
(* A client that keeps the ids it was given, over a listing that may change *)

\* the paths of the entries that carry the id (as a string) in the index a
\* request builds from the current listing
PathsOfId(id) ==
    LET index == indexFiles(files)
    IN  {index[k].Name : k \in {n \in 1..Len(index) : Itoa(index[n].ID) = id}}

\* the (id, path) pairs a response hands out: the artists of getIndexes,
\* and the children of getMusicDirectory with the paths of their entries
IssuedBy(r, w) ==
    IF w.http # 200 \/ ~w.envelope \/ w.status # "ok" THEN {}
    ELSE IF r.target = "/rest/getIndexes.view"
    THEN UNION {{[id |-> w.body.Indexes[i].Artists[j].ID,
                  path |-> w.body.Indexes[i].Artists[j].Name] :
                    j \in 1..Len(w.body.Indexes[i].Artists)} :
                i \in 1..Len(w.body.Indexes)}
    ELSE IF r.target = "/rest/getMusicDirectory.view"
    THEN UNION {{[id |-> w.body.MusicDirectory.Children[i].ID, path |-> p] :
                    p \in PathsOfId(w.body.MusicDirectory.Children[i].ID)} :
                i \in 1..Len(w.body.MusicDirectory.Children)}
    ELSE {}

\* the response is delivered and the client keeps the ids it holds
Remember ==
    /\ pc = "served"
    /\ issued' = issued \cup IssuedBy(req, resp)
    /\ pc' = "idle"
    /\ req' = NoReq
    /\ resp' = NoResp
    /\ calls' = <<>>
    /\ UNCHANGED <<files, fault, cfg, hexPartial, indexVars, keepaliveVars>>

\* the database's listing changes between two requests; the ids the client
\* holds are those of the listing before
Relist ==
    /\ pc = "idle"
    /\ files' \in ServedListings \ {files}
    /\ issued' = {}
    /\ UNCHANGED <<fault, cfg, hexPartial, req, resp, calls, indexVars, keepaliveVars, pc>>

\* the tests' configuration, working collaborators, any served listing
InitSession ==
    /\ cfg = TestConfig
    /\ hexPartial = FALSE
    /\ files \in ServedListings
    /\ fault = "none"
    /\ Idle

NextSession == Serve(OpsRequests) \/ Remember \/ Relist

SpecSession == InitSession /\ [][NextSession]_vars

----------------------------------------------------------------------------
(* Browsing: getMusicDirectory on every entry of every listing's index *)

\* getMusicDirectory requests with the configured credentials, for the id
\* of every entry of the index
BrowseRequests ==
    [method : {"GET"}, target : {"/rest/getMusicDirectory.view"},
     u : {cfg.SubsonicUser}, p : {cfg.SubsonicPassword}, t : {<<>>}, s : {<<>>},
     c : {<<99>>}, v : {<<118>>},
     id : {Itoa(i) : i \in 0..(Len(indexFiles(files)) - 1)}]

\* the tests' configuration, working collaborators, any listing
InitBrowse ==
    /\ cfg = TestConfig
    /\ hexPartial = FALSE
    /\ files \in Listings(MaxFiles)
    /\ fault = "none"
    /\ Idle

NextBrowse == Serve(BrowseRequests) \/ Finish

SpecBrowse == InitBrowse /\ [][NextBrowse]_vars

----------------------------------------------------------------------------
(* indexFiles followed through its loops, one turn at a time *)

\* everything but walk and out
notWalkVars ==
    <<files, start, filtered, tagOut, gatewayVars, keepaliveVars, issued, pc>>

\* indexFiles is called with the listing: seen is empty, idx is 0
InitWalk ==
    /\ files \in Listings(MaxFiles)
    /\ walk = [at |-> "file", rest |-> files, d |-> <<>>, dirs |-> <<>>, seen |-> {},
               idx |-> 0, acc |-> <<>>]
    /\ pc = "listed"
    /\ out = <<>>
    /\ start = 0
    /\ filtered = [panic |-> FALSE, out |-> <<>>]
    /\ tagOut = NotTagged
    /\ fault = "none"
    /\ cfg = NoConfig
    /\ hexPartial = FALSE
    /\ req = NoReq
    /\ resp = NoResp
    /\ calls = <<>>
    /\ ticker = "none"
    /\ pings = 0
    /\ logged = 0
    /\ closed = FALSE
    /\ issued = {}

\* for _, f := range files: the next file starts the directory walk with
\* an empty stack at d := filepath.Dir(f); after the last file out is returned
rangeFiles ==
    /\ walk.at = "file"
    /\ IF walk.rest = <<>>
       THEN /\ walk' = [walk EXCEPT !.at = "done"]
            /\ out' = walk.acc
       ELSE /\ walk' = [walk EXCEPT !.at = "walk", !.d = Dir(Head(walk.rest)),
                                    !.dirs = <<>>]
            /\ UNCHANGED out
    /\ UNCHANGED notWalkVars

\* a turn of the directory walk in which `continue` skips the loop's post
\* statement
walkTurnStuck ==
    /\ walk.at = "walk"
    /\ walk' = IF walk.d = Dot THEN [walk EXCEPT !.at = "drain"]
               ELSE IF walk.d \in walk.seen THEN walk
               ELSE [walk EXCEPT !.seen = @ \cup {walk.d},
                                 !.dirs = Push(@, walk.d),
                                 !.d = Dir(walk.d)]
    /\ UNCHANGED <<out, notWalkVars>>

\* a turn of for d := filepath.Dir(f); d != "."; d = filepath.Dir(d): the
\* loop ends at ".", a directory already seen is passed over, a new one is
\* added to seen and pushed; the post statement runs after either
walkTurn ==
    /\ walk.at = "walk"
    /\ walk' = IF walk.d = Dot THEN [walk EXCEPT !.at = "drain"]
               ELSE IF walk.d \in walk.seen THEN [walk EXCEPT !.d = Dir(walk.d)]
               ELSE [walk EXCEPT !.seen = @ \cup {walk.d},
                                 !.dirs = Push(@, walk.d),
                                 !.d = Dir(walk.d)]
    /\ UNCHANGED <<out, notWalkVars>>

\* a turn of for d := dirs.Pop(); d != ""; d = dirs.Pop(): a popped
\* directory is appended with the next index; when the stack is empty the
\* file is appended with the next index and the range moves on
drainTurn ==
    /\ walk.at = "drain"
    /\ LET p == Pop(walk.dirs)
       IN  walk' = IF p.str # <<>>
                   THEN [walk EXCEPT !.dirs = p.s, !.idx = @ + 1,
                            !.acc = Append(@, [ID |-> walk.idx, Name |-> p.str,
                                               Dir |-> TRUE])]
                   ELSE [walk EXCEPT !.at = "file", !.rest = Tail(@), !.idx = @ + 1,
                            !.acc = Append(@, [ID |-> walk.idx, Name |-> Head(walk.rest),
                                               Dir |-> FALSE])]
    /\ UNCHANGED <<out, notWalkVars>>

NextWalk == rangeFiles \/ walkTurn \/ drainTurn

\* the goroutine that called indexFiles keeps running: a turn that can be
\* taken is taken
SpecWalk == InitWalk /\ [][NextWalk]_vars /\ WF_vars(NextWalk)

----------------------------------------------------------------------------
(* Claims about the index *)

\* the ancestor directories of path, root excluded: its proper prefixes
\* that end right before a separator
Ancestors(path) ==
    {SubSeq(path, 1, i - 1) : i \in {k \in 1..Len(path) : path[k] = PathSeparator}}

AllAncestors(fs) == UNION {Ancestors(fs[i]) : i \in 1..Len(fs)}

\* C1: the index has one entry per distinct ancestor directory and one per
\* input path (duplicates counted), and no directory path appears twice
C1_IndexSize ==
    pc # "listed" =>
        /\ Len(out) = Cardinality(AllAncestors(files)) + Len(files)
        /\ \A i, j \in 1..Len(out) :
              (out[i].Dir /\ out[j].Dir /\ out[i].Name = out[j].Name) => i = j

\* an index was built from a listing in which two files share a directory
\* and one file is listed twice
C1_Witness ==
    /\ pc = "indexed"
    /\ Len(files) = 3
    /\ files[1] = files[3]
    /\ files[1] # files[2]
    /\ Dir(files[1]) = Dir(files[2])
    /\ Dir(files[1]) # Dot

\* path lies beneath the directory dir
Beneath(path, dir) == HasPrefix(path, dir \o <<PathSeparator>>)

\* C2: a directory entry has a lower id than every entry beneath it
C2_DirsFirst ==
    pc # "listed" =>
        \A i, j \in 1..Len(out) :
            (out[i].Dir /\ Beneath(out[j].Name, out[i].Name)) => out[i].ID < out[j].ID

\* an index in which one file brought two new directories, the deeper one
\* beneath the other, after an unrelated file
C2_Witness ==
    /\ pc = "indexed"
    /\ Len(out) >= 4
    /\ ~out[1].Dir
    /\ out[2].Dir /\ out[3].Dir /\ ~out[4].Dir
    /\ Beneath(out[3].Name, out[2].Name)
    /\ Beneath(out[4].Name, out[3].Name)

\* the entries of the index whose parent directory is dir, in index order
ChildrenOf(idx, dir) ==
    SelectSeq(idx, LAMBDA f : Beneath(f.Name, dir) /\ CountSep(f.Name) = CountSep(dir) + 1)

RECURSIVE LexLess(_, _)
\* a sorts before b, byte by byte
LexLess(a, b) ==
    IF a = <<>> THEN b # <<>>
    ELSE IF b = <<>> THEN FALSE
    ELSE IF a[1] # b[1] THEN a[1] < b[1]
    ELSE LexLess(Tail(a), Tail(b))

\* a listing as MPD returns it for a music directory: sorted, no path
\* twice, no file that is also a directory
TreeListing(fs) ==
    /\ \A i \in 1..(Len(fs) - 1) : LexLess(fs[i], fs[i + 1])
    /\ \A i \in 1..Len(fs) : fs[i] \notin AllAncestors(fs)

\* C3: filterFiles on a directory's id returns exactly the entries whose
\* parent directory it is, in index order (stated on the listings of a
\* music directory, sorted as the database returns them)
C3_ExactChildren ==
    (/\ pc = "filtered"
     /\ TreeListing(files)
     /\ start >= 0 /\ start < Len(out)
     /\ At(out, start).Dir) =>
        /\ ~filtered.panic
        /\ filtered.out = ChildrenOf(out, At(out, start).Name)

----------------------------------------------------------------------------
(* Claims about the gateway *)

GetMusicDirectory == "/rest/getMusicDirectory.view"
Stream == "/rest/stream.view"
GetIndexes == "/rest/getIndexes.view"
Ping == "/rest/ping.view"

\* the request came by GET or POST
GetOrPost == req.method = "GET" \/ req.method = "POST"

\* a status-200 envelope with status failed and the error code
FailedWith(code) ==
    /\ resp.http = 200
    /\ resp.envelope
    /\ resp.status = "failed"
    /\ resp.code = code

\* no operation handler ran and no collaborator was called
NothingRan == resp.handler = "none" /\ calls = <<>>

\* the request passed the method check, parseContext and the credential
\* check and reached the mux
Dispatched == resp.stage = "mux"

\* C4: an authenticated getMusicDirectory or stream with an integer id
\* out of the index's range (at or past its end, or negative) is answered
\* 404 without envelope, and no file is opened
C4_OutOfRangeNotFound ==
    (/\ pc = "served"
     /\ fault = "none"
     /\ req.target \in {GetMusicDirectory, Stream}
     /\ Atoi(req.id).ok
     /\ (Atoi(req.id).val >= Len(indexFiles(files)) \/ Atoi(req.id).val < 0)) =>
        /\ resp.http = 404
        /\ ~resp.envelope
        /\ ~resp.panic
        /\ \A i \in 1..Len(calls) : calls[i].op # "Open"

\* C5: a GET or POST without u, c or v, or with neither p nor both t and
\* s, is answered with code 10; no handler runs, no backend call is made
C5_MissingParameter ==
    (/\ pc = "served"
     /\ GetOrPost
     /\ \/ req.u = <<>>
        \/ req.c = <<>>
        \/ req.v = <<>>
        \/ (req.p = <<>> /\ ~(req.t # <<>> /\ req.s # <<>>))) =>
        FailedWith(10) /\ NothingRan

\* a POST to stream with the configured user, c and v, and a token without
\* salt as its only proof was answered with code 10
C5_Witness ==
    /\ pc = "served"
    /\ req.method = "POST"
    /\ req.target = Stream
    /\ req.u = cfg.SubsonicUser /\ req.u # <<>>
    /\ req.c # <<>> /\ req.v # <<>>
    /\ req.p = <<>> /\ req.t # <<>> /\ req.s = <<>>
    /\ FailedWith(10)

\* the password a value of p stands for: itself, or the decoded hex after
\* "enc:", empty when the hex is malformed
StandsFor(p) ==
    IF ~HasPrefix(p, encPrefix) THEN p
    ELSE LET d == hexDecode(SubSeq(p, Len(encPrefix) + 1, Len(p)), <<>>)
         IN  IF d.ok THEN d.bytes ELSE <<>>

\* the request's proof is the configured password's: p when it is sent,
\* the token and salt otherwise
ProofMatches ==
    IF req.p # <<>> THEN StandsFor(req.p) = cfg.SubsonicPassword
    ELSE req.t = Token(cfg.SubsonicPassword, req.s)

\* the server has a user and a password configured
Configured == cfg.SubsonicUser # <<>> /\ cfg.SubsonicPassword # <<>>

\* C6: a GET or POST with u, c, v and a proof, whose user or proof is not
\* the configured one, is answered with code 40 and no handler runs
\* (stated for a server with a user and a password configured)
C6_Unauthorized ==
    (/\ pc = "served"
     /\ Configured
     /\ GetOrPost
     /\ req.u # <<>> /\ req.c # <<>> /\ req.v # <<>>
     /\ (req.p # <<>> \/ (req.t # <<>> /\ req.s # <<>>))
     /\ (req.u # cfg.SubsonicUser \/ ~ProofMatches)) =>
        FailedWith(40) /\ NothingRan

\* the request with the password sent in the other form: plain for
\* hex-encoded, hex-encoded for plain
OtherForm(r) ==
    [r EXCEPT !.p = IF r.p = cfg.SubsonicPassword
                    THEN encPrefix \o EncodeToString(cfg.SubsonicPassword)
                    ELSE cfg.SubsonicPassword]

\* a GET or POST with the configured, non-empty user, c, v and the
\* configured password, plain or hex-encoded
SendsPassword ==
    /\ pc = "served"
    /\ GetOrPost
    /\ cfg.SubsonicPassword # <<>>
    /\ cfg.SubsonicUser # <<>>
    /\ req.u = cfg.SubsonicUser
    /\ req.c # <<>> /\ req.v # <<>>
    /\ req.p \in {cfg.SubsonicPassword, encPrefix \o EncodeToString(cfg.SubsonicPassword)}

\* C7 as stated: for every non-empty configured password and user, the
\* request that sends the configured password, plain or hex-encoded, is
\* authenticated and dispatched
C7_AnyPassword == SendsPassword => Dispatched

\* C7, amended: for a non-empty configured password that does not begin
\* with "enc:" and a non-empty configured user, the request that sends the
\* password plain is dispatched and the one that sends it hex-encoded has
\* the same response; decodePassword undoes the hex encoding and leaves
\* values without the prefix alone
C7_PasswordForms ==
    /\ (SendsPassword /\ ~HasPrefix(cfg.SubsonicPassword, encPrefix)) =>
          /\ Dispatched
          /\ ServeHTTP(OtherForm(req)).resp = resp
    /\ \A P \in Passwords : decodePassword(encPrefix \o EncodeToString(P)) = P
    /\ \A x \in PValues : ~HasPrefix(x, encPrefix) => decodePassword(x) = x

\* a ping that sent the configured password hex-encoded was answered ok
C7_Witness ==
    /\ SendsPassword
    /\ ~HasPrefix(cfg.SubsonicPassword, encPrefix)
    /\ req.p = encPrefix \o EncodeToString(cfg.SubsonicPassword)
    /\ req.target = Ping
    /\ resp.http = 200 /\ resp.envelope /\ resp.status = "ok"

\* C8: a request with the configured user, c, v, no p, and the token of
\* the configured password and the salt is authenticated and dispatched;
\* ping answers ok (stated for a server with a user and a password
\* configured)
C8_TokenAuth ==
    (/\ pc = "served"
     /\ Configured
     /\ GetOrPost
     /\ req.u = cfg.SubsonicUser
     /\ req.c # <<>> /\ req.v # <<>>
     /\ req.p = <<>>
     /\ req.s # <<>>
     /\ req.t = Token(cfg.SubsonicPassword, req.s)) =>
        /\ Dispatched
        /\ req.target = Ping => (resp.http = 200 /\ resp.envelope /\ resp.status = "ok")

\* C9: a request by another method than GET or POST is answered 405
\* without envelope; no credential check, no handler, no backend call
C9_MethodNotAllowed ==
    (pc = "served" /\ ~GetOrPost) =>
        /\ resp.http = 405
        /\ ~resp.envelope
        /\ resp.stage = "method"
        /\ NothingRan

\* a PUT to stream with the configured credentials was answered 405
C9_Witness ==
    /\ pc = "served"
    /\ req.method = "PUT"
    /\ req.target = Stream
    /\ req.u = cfg.SubsonicUser /\ req.u # <<>>
    /\ req.p = cfg.SubsonicPassword /\ req.p = <<97>>
    /\ req.c # <<>> /\ req.v # <<>>
    /\ resp.http = 405

\* the positions of the failed collaborator calls
FailedCalls == {i \in 1..Len(calls) : ~calls[i].ok}

\* C10: in getIndexes, getMusicDirectory and stream a failed backend call
\* or file open or stat yields code 0 in a status-200 envelope; the failed
\* call is the last one made and was made once
C10_BackendFailure ==
    (/\ pc = "served"
     /\ req.target \in {GetIndexes, GetMusicDirectory, Stream}
     /\ FailedCalls # {}) =>
        /\ FailedWith(0)
        /\ FailedCalls = {Len(calls)}
        /\ \A i \in 1..(Len(calls) - 1) :
              ~(calls[i].op = calls[Len(calls)].op /\ calls[i].arg = calls[Len(calls)].arg)

\* a stream whose file opened and whose stat failed was answered code 0
C10_Witness ==
    /\ pc = "served"
    /\ req.target = Stream
    /\ Len(calls) = 3
    /\ calls[1].ok /\ calls[2].ok /\ ~calls[3].ok
    /\ calls[3].op = "Stat"
    /\ FailedWith(0)

----------------------------------------------------------------------------
(* Claims about the handlers *)

\* the entries of the index without a separator in their path
TopLevel(idx) == SelectSeq(idx, LAMBDA e : ~ContainsSep(e.Name))

\* the name of the bucket an entry belongs under: its first character,
\* "#" for a digit
BucketOf(name) == IF name[1] \in 48..57 THEN <<35>> ELSE <<name[1]>>

\* where in the returned buckets the index entry e appears
PlacesOf(indexes, e) ==
    {pl \in UNION {{<<i, j>> : j \in 1..Len(indexes[i].Artists)} : i \in 1..Len(indexes)} :
        indexes[pl[1]].Artists[pl[2]] = [Name |-> e.Name, ID |-> Itoa(e.ID)]}

\* the position in top of the first entry that belongs under bucket name b
FirstOf(top, b) ==
    CHOOSE k \in 1..Len(top) :
        /\ BucketOf(top[k].Name) = b
        /\ \A l \in 1..(k - 1) : BucketOf(top[l].Name) # b

\* C11: for a listing in any order, getIndexes returns every top-level
\* index entry exactly once, under the bucket named by its own first
\* character ("#" for a digit), no entry with a separator, each bucket name
\* once, buckets and the entries of a bucket in order of first appearance
C11_Grouped ==
    (/\ pc = "served"
     /\ req.target = "/rest/getIndexes.view"
     /\ resp.status = "ok") =>
        LET indexes == resp.body.Indexes
            top     == TopLevel(indexFiles(files))
        IN  /\ \A k \in 1..Len(top) :
                  /\ Cardinality(PlacesOf(indexes, top[k])) = 1
                  /\ \A pl \in PlacesOf(indexes, top[k]) :
                        indexes[pl[1]].Name = BucketOf(top[k].Name)
            /\ \A i \in 1..Len(indexes) : \A j \in 1..Len(indexes[i].Artists) :
                  ~ContainsSep(indexes[i].Artists[j].Name)
            /\ \A i, j \in 1..Len(indexes) :
                  indexes[i].Name = indexes[j].Name => i = j
            /\ \A i, j \in 1..Len(indexes) :
                  (/\ i < j
                   /\ \E k \in 1..Len(top) : BucketOf(top[k].Name) = indexes[i].Name
                   /\ \E k \in 1..Len(top) : BucketOf(top[k].Name) = indexes[j].Name) =>
                     FirstOf(top, indexes[i].Name) < FirstOf(top, indexes[j].Name)
            /\ \A k, l \in 1..Len(top) :
                  (k < l /\ BucketOf(top[k].Name) = BucketOf(top[l].Name)) =>
                     \A pk \in PlacesOf(indexes, top[k]) :
                        \A pl \in PlacesOf(indexes, top[l]) :
                           pk[1] = pl[1] /\ pk[2] < pl[2]

\* an authenticated getMusicDirectory was answered with a directory
DirectoryReturned ==
    /\ pc = "served"
    /\ req.target = "/rest/getMusicDirectory.view"
    /\ resp.http = 200
    /\ resp.status = "ok"

\* C12 as claimed: the directory returned for id carries the requested id
\* and the full path of the starting entry index[id] as its name
C12_NameOfStart ==
    DirectoryReturned =>
        /\ Atoi(resp.body.MusicDirectory.ID).val = Atoi(req.id).val
        /\ resp.body.MusicDirectory.Name = At(indexFiles(files), Atoi(req.id).val).Name

\* C12: the directory returned for id carries the requested id, and its
\* name is the full path of the entry returned as its first child, which
\* for a directory index[id] is never the path of index[id] itself
C12_NameOfFirstChild ==
    DirectoryReturned =>
        LET d     == resp.body.MusicDirectory
            index == indexFiles(files)
        IN  /\ d.ID = Itoa(Atoi(req.id).val)
            /\ Len(d.Children) > 0
            /\ d.Name = At(index, Atoi(d.Children[1].ID).val).Name
            /\ At(index, Atoi(req.id).val).Dir =>
                  d.Name # At(index, Atoi(req.id).val).Name

\* a directory with two children was returned
C12_Witness ==
    /\ DirectoryReturned
    /\ Len(resp.body.MusicDirectory.Children) = 2
    /\ ~resp.body.MusicDirectory.Children[1].IsDir

\* what follows the last separator of path, path itself when it has none
LastSegment(path) ==
    LET seps == {i \in 1..Len(path) : path[i] = 47}
    IN  IF seps = {} THEN path
        ELSE SubSeq(path, (CHOOSE i \in seps : \A j \in seps : j <= i) + 1, Len(path))

\* C13: whatever the state of the database, an authenticated
\* getMusicFolders is answered with a success envelope holding exactly one
\* folder, with id 0 and the last segment of the configured music directory
\* as its name, and without any call to the database or the filesystem
C13_OneFolder ==
    (pc = "served" /\ req.target = "/rest/getMusicFolders.view") =>
        /\ resp.http = 200
        /\ resp.envelope
        /\ resp.status = "ok"
        /\ Len(resp.body.MusicFolders) = 1
        /\ resp.body.MusicFolders[1].ID = 0
        /\ resp.body.MusicFolders[1].Name = LastSegment(cfg.MusicDirectory)
        /\ calls = <<>>

\* getMusicFolders was served for a music directory two segments deep
\* while the database's listing fails
C13_Witness ==
    /\ pc = "served"
    /\ req.target = "/rest/getMusicFolders.view"
    /\ fault = "list"
    /\ files # <<>>
    /\ Len(cfg.MusicDirectory) = 4
    /\ resp.http = 200

\* the positions in calls of the files opened while serving the request
Opened == {i \in 1..Len(calls) : calls[i].op = "Open"}

\* C14: an authenticated stream with an id within the index opens one file,
\* the music directory joined with the path of index[id], and no other; the
\* content it serves is that file's
C14_OpensIndexed ==
    (/\ pc = "served"
     /\ req.target = "/rest/stream.view"
     /\ Atoi(req.id).ok
     /\ Atoi(req.id).val >= 0
     /\ Atoi(req.id).val < Len(indexFiles(files))) =>
        LET wanted == cfg.MusicDirectory \o <<47>>
                        \o indexFiles(files)[Atoi(req.id).val + 1].Name
        IN  /\ \A i \in Opened : calls[i].arg = wanted
            /\ Cardinality(Opened) <= 1
            /\ fault # "list" => Cardinality(Opened) = 1
            /\ (resp.http = 200 /\ ~resp.envelope) => resp.body = [content |-> wanted]
            /\ fault = "none" => (resp.http = 200 /\ ~resp.envelope)

\* the second of two listed files was streamed from a music directory two
\* segments deep
C14_Witness ==
    /\ pc = "served"
    /\ req.target = "/rest/stream.view"
    /\ Len(files) = 2
    /\ req.id = <<50>>
    /\ ~indexFiles(files)[3].Dir
    /\ Len(cfg.MusicDirectory) = 4
    /\ resp.http = 200
    /\ Cardinality(Opened) = 1

----------------------------------------------------------------------------
(* Claims about the keepalive goroutine *)

\* C15: with a keepalive interval configured, once the server's shutdown
\* has completed no further Ping is issued to the database
C15_NoPingAfterClose == [][(cfg.Keepalive > 0 /\ closed) => pings' = pings]_vars

----------------------------------------------------------------------------
(* Claims about tagFiles *)

\* the path of the directory a path lies in: what precedes its last
\* separator, nothing for a path without one
ParentOf(path) ==
    LET seps == {i \in 1..Len(path) : path[i] = 47}
    IN  IF seps = {} THEN <<>>
        ELSE SubSeq(path, 1, (CHOOSE i \in seps : \A j \in seps : j <= i) - 1)

\* the positions in the input of the files that lie right in directory dir
FilesIn(in, dir) == {k \in 1..Len(in) : ~in[k].Dir /\ ParentOf(in[k].Name) = dir}

\* the last position of a non-empty set of positions
LastPos(ps) == CHOOSE k \in ps : \A l \in ps : l <= k

\* C16: in the output of tagFiles a directory whose path has a separator
\* and which is the immediate parent of a file of the same input carries
\* the artist and album of the last such file, and that file's album as its
\* title; every other directory has its last segment as title and no artist
\* or album
C16_Inherited ==
    (pc = "tagged" /\ tagOut.ok) =>
        /\ Len(tagOut.out) = Len(out)
        /\ \A i \in 1..Len(out) :
              LET e  == tagOut.out[i]
                  fs == FilesIn(out, out[i].Name)
              IN  /\ e.ID = out[i].ID /\ e.Name = out[i].Name /\ e.Dir = out[i].Dir
                  /\ e.Dir =>
                       IF ContainsSep(e.Name) /\ fs # {}
                       THEN /\ e.Artist = Attrs(out[LastPos(fs)].Name).ARTIST
                            /\ e.Album = Attrs(out[LastPos(fs)].Name).ALBUM
                            /\ e.Title = Attrs(out[LastPos(fs)].Name).ALBUM
                       ELSE /\ e.Artist = <<>>
                            /\ e.Album = <<>>
                            /\ e.Title = LastSegment(e.Name)

\* an input was tagged in which a directory below the top level holds two
\* different files, and a top-level directory holds a file as well
C16_Witness ==
    /\ pc = "tagged"
    /\ tagOut.ok
    /\ \E i \in 1..Len(out) :
          /\ out[i].Dir
          /\ ContainsSep(out[i].Name)
          /\ \E k, l \in FilesIn(out, out[i].Name) : out[k].Name # out[l].Name
    /\ \E i \in 1..Len(out) :
          /\ out[i].Dir
          /\ ~ContainsSep(out[i].Name)
          /\ FilesIn(out, out[i].Name) # {}

\* the file entries of the input whose attribute lookup fails: the database
\* has no tags for the last listed file
FailingFiles ==
    {k \in 1..Len(out) :
        ~out[k].Dir /\ fault = "attrsLast" /\ out[k].Name = files[Len(files)]}

\* C17: when the lookup fails for a file entry, tagFiles returns the error
\* and no entry at all; it fails in no other case, and looks up file
\* entries only, so an input of directories alone is tagged without a lookup
C17_AllOrNothing ==
    pc = "tagged" =>
        /\ tagOut.ok <=> FailingFiles = {}
        /\ ~tagOut.ok => tagOut.out = <<>>
        /\ tagOut.ok => Len(tagOut.out) = Len(out)
        /\ \A c \in 1..Len(tagOut.calls) :
              \E k \in 1..Len(out) : ~out[k].Dir /\ out[k].Name = tagOut.calls[c].arg
        /\ (\A k \in 1..Len(out) : out[k].Dir) => (tagOut.ok /\ tagOut.calls = <<>>)

\* tagFiles failed on an input with directories and two files, after a
\* lookup that succeeded
C17_Witness ==
    /\ pc = "tagged"
    /\ ~tagOut.ok
    /\ Len(tagOut.calls) = 2
    /\ tagOut.calls[1].ok
    /\ \E k \in 1..Len(out) : out[k].Dir

----------------------------------------------------------------------------
(* Claims about ids across requests *)

\* the pairs the client holds for the id of the request being served
HeldForRequest == {p \in issued : p.id = req.id}

----------------------------------------------------------------------------
(* Claims about the stages of a request *)

\* s is a base-10 integer: an optional sign and at least one digit
IsInteger(s) ==
    LET body == IF s # <<>> /\ s[1] \in {43, 45} THEN Tail(s) ELSE s
    IN  body # <<>> /\ \A i \in 1..Len(body) : body[i] \in 48..57

\* C19: an authenticated getMusicDirectory or stream without an id (or with
\* an empty one) is answered with a status-200 envelope of code 10, one
\* whose id is not a base-10 integer with a status-200 envelope of code 0;
\* in both cases the database is not listed and no file is opened
C19_BadId ==
    (/\ pc = "served"
     /\ req.target \in {"/rest/getMusicDirectory.view", "/rest/stream.view"}) =>
        /\ req.id = <<>> => (FailedWith(10) /\ calls = <<>>)
        /\ (req.id # <<>> /\ ~IsInteger(req.id)) => (FailedWith(0) /\ calls = <<>>)

\* a stream with the id "1x" was answered while the listing is not empty
\* and the database fails to list
C19_Witness ==
    /\ pc = "served"
    /\ req.target = "/rest/stream.view"
    /\ req.id = <<49, 120>>
    /\ files # <<>>
    /\ fault = "list"
    /\ resp.http = 200

\* u, c, v and a password are present in the request
AllPresent ==
    req.u # <<>> /\ req.c # <<>> /\ req.v # <<>> /\ decodePassword(req.p) # <<>>

\* the request's user and decoded password are the configured ones
Matched ==
    req.u = cfg.SubsonicUser /\ decodePassword(req.p) = cfg.SubsonicPassword

----------------------------------------------------------------------------
(* Claims about ids and positions *)

\* the positions (0-based) of the index entries that carry the id
Carrying(idx, id) == {k \in 0..(Len(idx) - 1) : idx[k + 1].ID = id}

\* C21: in every index the entry at position i (0-based) has id i: ids
\* start at 0 and go up by one from entry to entry, so that the one entry
\* that carries an id is the entry found at that position
C21_IdIsPosition ==
    pc # "listed" =>
        /\ Len(out) > 0 => out[1].ID = 0
        /\ \A i \in 1..(Len(out) - 1) : out[i + 1].ID = out[i].ID + 1
        /\ \A id \in 0..(Len(out) - 1) : Carrying(out, id) = {id}

\* an index was built in which directories were numbered between files
\* and a path is listed twice
C21_Witness ==
    /\ pc = "indexed"
    /\ Len(out) >= 5
    /\ \E i, j, k \in 1..Len(out) :
          i < j /\ j < k /\ ~out[i].Dir /\ out[j].Dir /\ ~out[k].Dir
    /\ \E i, j \in 1..Len(files) : i # j /\ files[i] = files[j]

\* C22: with the interval 0 the keepalive goroutine is never started and the
\* database is never pinged; with a positive interval a step of the
\* goroutine makes one Ping, and a failed Ping is logged, once, and leaves
\* the goroutine running
C22_Keepalive ==
    /\ [](cfg.Keepalive = 0 => (ticker = "none" /\ pings = 0 /\ logged = 0))
    /\ [][pings' # pings => (cfg.Keepalive > 0 /\ pings' = pings + 1)]_vars
    /\ [][(pings' # pings /\ fault = "ping") =>
            (logged' = logged + 1 /\ ticker' = "running")]_vars
    /\ [][(pings' # pings /\ fault # "ping") =>
            (logged' = logged /\ ticker' = "running")]_vars
    /\ [][logged' # logged => pings' # pings]_vars

\* the goroutine has pinged a failing database twice, logged both failures
\* and is still running, with a request answered in between
C22_Witness ==
    /\ cfg.Keepalive > 0
    /\ fault = "ping"
    /\ pings = 2
    /\ logged = 2
    /\ ticker = "running"
    /\ pc = "served"

----------------------------------------------------------------------------
(* Claims about browsing *)

\* the index entry the request's id names
Requested == indexFiles(files)[Atoi(req.id).val + 1]

\* the index entry a returned child stands for: the one at the position
\* its id gives
EntryOf(child) == indexFiles(files)[Atoi(child.ID).val + 1]

\* C23: a directory entry of an index is followed by one of its direct
\* children, and filterFiles on its id returns at least that entry: an
\* authenticated getMusicDirectory on a directory's id, with the database
\* working, is never answered 404 but with a directory whose first child is
\* the entry right after the requested one, which lies directly in it
C23_DirectoryNotEmpty ==
    (/\ pc = "served"
     /\ req.target = "/rest/getMusicDirectory.view"
     /\ Requested.Dir) =>
        /\ resp.http = 200
        /\ resp.status = "ok"
        /\ Len(resp.body.MusicDirectory.Children) >= 1
        /\ Atoi(resp.body.MusicDirectory.Children[1].ID).val = Atoi(req.id).val + 1
        /\ ParentOf(EntryOf(resp.body.MusicDirectory.Children[1]).Name) = Requested.Name

\* the last directory of an index of five entries, numbered after files of
\* other directories, was browsed
C23_Witness ==
    /\ pc = "served"
    /\ req.target = "/rest/getMusicDirectory.view"
    /\ Len(indexFiles(files)) >= 5
    /\ Requested.Dir
    /\ ContainsSep(Requested.Name)
    /\ Atoi(req.id).val = Len(indexFiles(files)) - 2
    /\ resp.http = 200

\* C24: in a getMusicDirectory response every child that is a directory
\* has no artist and no album, and its last path segment as title (stated
\* for a directory's id, on the listings of a music directory, sorted as
\* the database returns them)
C24_ChildDirsUntagged ==
    (/\ pc = "served"
     /\ req.target = "/rest/getMusicDirectory.view"
     /\ TreeListing(files)
     /\ Requested.Dir
     /\ resp.http = 200
     /\ resp.status = "ok") =>
        \A i \in 1..Len(resp.body.MusicDirectory.Children) :
           LET child == resp.body.MusicDirectory.Children[i]
           IN  child.IsDir =>
                 /\ child.Artist = <<>>
                 /\ child.Album = <<>>
                 /\ child.Title = LastSegment(EntryOf(child).Name)

----------------------------------------------------------------------------
(* Claims about termination *)

\* C25: on every listing of relative paths, the empty listing and paths
\* without a directory part included, indexFiles comes to its return: each
\* directory walk reaches "." and each drain empties the stack
C25_Terminates == <>(walk.at = "done")

\* indexFiles has returned the index of three paths after a walk that
\* passed over directories already seen and a walk that had none to pass
C25_Witness ==
    /\ walk.at = "done"
    /\ Len(files) = 3
    /\ out = indexFiles(files)
    /\ \E i \in 1..Len(files) : ~ContainsSep(files[i])
    /\ \E i, j \in 1..Len(files) :
          i < j /\ CountSep(files[i]) = 2 /\ CountSep(files[j]) = 2
             /\ Dir(files[i]) = Dir(files[j])

----------------------------------------------------------------------------
(* Claims about the empty password *)

====
